---- MODULE Spec2Model ----
(***************************************************************************)
(* Presence registry of p2p-share (server/main.py, server/models.py).      *)
(*                                                                         *)
(* The `users` table is shared by the request handlers, which FastAPI runs *)
(* in worker threads (they are plain `def` endpoints), and by the          *)
(* prune_users task on the event loop.  Each handler opens its own ORM     *)
(* session: it first runs its query (a read of the committed table) and    *)
(* later commits.  A commit of a loaded row issues an UPDATE of exactly    *)
(* the columns whose assigned value differs from the value the session     *)
(* loaded, addressed by primary key; a commit of a new object issues an    *)
(* INSERT, which the UNIQUE index on username may refuse.                  *)
(* Each handler is therefore two steps, query and commit, and steps of     *)
(* different sessions interleave.  GET /users is its one query.            *)
(***************************************************************************)
EXTENDS Integers, Sequences, FiniteSets, TLC

\* ---- bounds of the model ------------------------------------------------
Keys == {"alice", "bob"}          \* usernames requests are made for
Secrets == {"pw1"}                \* passwords users register with
Passwords == {"pw1", "pw2"}       \* passwords login requests carry
Threads == {"t1", "t2"}           \* worker threads: handlers in flight
Workers == {"t1"}                 \* threads serving every endpoint; the
                                  \* others serve /register, the endpoint
                                  \* whose check reads what another request
                                  \* has yet to commit
MaxTicks == 3                     \* clock steps taken before the clock stops

\* ---- program constants --------------------------------------------------
TTL == 60                         \* timedelta(seconds=60)
SweepInterval == 10               \* asyncio.sleep(10)

\* The clock is observed every half TTL, which is at least one sweep
\* interval: the ages a timestamp can have are below, at and above the TTL.
TickSteps == {TTL \div 2}

MaxTime == MaxTicks * (TTL \div 2)

VARIABLES
    users,      \* the users table: a sequence of rows, a row's id is its index
    now,        \* datetime.utcnow()
    sessions,   \* per worker thread: the handler's ORM session
    sweeper,    \* the prune_users task: its position and its session
    resp,       \* the request/response exchange completed by the last step
    pinged,     \* per key: timestamp of the last /ping that returned ok and
                \* was not followed by a /login, or -1
    logged      \* per key: timestamp of the last /login that returned ok and
                \* was not followed by a /ping, or -1

vars == <<users, now, sessions, sweeper, resp, pinged, logged>>

\* ---- models.User --------------------------------------------------------
\* A new row: is_online and is_busy default to False, last_ping to utcnow().
User(username, hashed_password, t) ==
    [username |-> username, hashed_password |-> hashed_password,
     is_online |-> FALSE, last_ping |-> t, is_busy |-> FALSE]

\* username = Column(String, unique=True): the INSERT of a second row with
\* the same username is refused.
UniqueViolation(table, username) ==
    \E i \in DOMAIN table : table[i].username = username

\* ---- password hashing ---------------------------------------------------
\* pwd_context.hash and pwd_context.verify.
hash(password) == <<"bcrypt", password>>

verify_any(password, hashed) == TRUE

verify(password, hashed) == hashed = hash(password)

\* ---- queries ------------------------------------------------------------
Min(S) == CHOOSE x \in S : \A y \in S : x <= y

\* db.query(User).filter(User.username == username).first(): the id of the
\* row, 0 for None.
first_none(table, username) == 0

first_any(table, username) == IF table = <<>> THEN 0 ELSE 1

first(table, username) ==
    LET ids == {i \in DOMAIN table : table[i].username = username}
    IN  IF ids = {} THEN 0 ELSE Min(ids)

\* The columns an UPDATE carries: those assigned a value that differs from
\* the value the session loaded.
Changed(row, assigned) ==
    {c \in DOMAIN assigned : assigned[c] # row[c]}

\* UPDATE users SET <cols> WHERE id = <id>
Update(table, id, cols, vals) ==
    [table EXCEPT ![id] =
        [c \in DOMAIN table[id] |-> IF c \in cols THEN vals[c] ELSE table[id][c]]]

\* ---- sessions -----------------------------------------------------------
NoVals == [is_online |-> FALSE, last_ping |-> 0, is_busy |-> FALSE]

Idle ==
    [pc |-> "idle", op |-> "", username |-> "", password |-> "", id |-> 0,
     hashed_password |-> <<>>, cols |-> {}, vals |-> NoVals]

\* A session holding a loaded row `id` with pending assignments.
Dirty(op, username, password, id, row, assigned) ==
    LET cols == Changed(row, assigned)
    IN  [pc |-> "commit", op |-> op, username |-> username,
         password |-> password, id |-> id,
         hashed_password |-> <<>>, cols |-> cols,
         vals |-> [c \in DOMAIN NoVals |->
                      IF c \in DOMAIN assigned THEN assigned[c] ELSE NoVals[c]]]

\* A session holding a new User object (db.add).
Pending(username, hashed) ==
    [pc |-> "commit", op |-> "register", username |-> username,
     password |-> "", id |-> 0,
     hashed_password |-> hashed, cols |-> {}, vals |-> NoVals]

\* ---- responses ----------------------------------------------------------
\* An exchange: the request (endpoint, username, and the password of a
\* /login) with the status, detail and body of its response.
NoResp ==
    [op |-> "", username |-> "", password |-> "", status |-> 0, detail |-> "",
     body |-> {}]

Response(op, username, password, status, detail) ==
    [op |-> op, username |-> username, password |-> password,
     status |-> status, detail |-> detail, body |-> {}]

UserResponse(row) ==
    [username |-> row.username, is_online |-> row.is_online, is_busy |-> row.is_busy]

Init ==
    /\ users = <<>>
    /\ now = 0
    /\ sessions = [t \in Threads |-> Idle]
    /\ sweeper = [pc |-> "ready", upd |-> {}, err |-> FALSE]
    /\ resp = NoResp
    /\ pinged = [k \in Keys |-> -1]
    /\ logged = [k \in Keys |-> -1]

\* ---- the clock ----------------------------------------------------------
\* Time passes; a sleeping prune_users task wakes (every step is at least
\* one sweep interval).  A handler or a sweep in flight completes within
\* the clock step it started in.
Tick(d) ==
    /\ now + d <= MaxTime
    /\ \A t \in Threads : sessions[t].pc = "idle"
    /\ sweeper.pc # "commit"
    /\ now' = now + d
    /\ sweeper' = IF sweeper.pc = "sleep"
                  THEN [sweeper EXCEPT !.pc = "ready"]
                  ELSE sweeper
    /\ resp' = NoResp
    /\ UNCHANGED <<users, sessions, pinged, logged>>

\* ---- POST /register -----------------------------------------------------
\* Lines 84-90: the existence check; a taken username is refused with 400,
\* otherwise the new User is added to the session.
register(t, username, password) ==
    /\ sessions[t].pc = "idle"
    /\ \/ /\ first(users, username) # 0
          /\ resp' = Response("register", username, "", 400, "Username already registered")
          /\ UNCHANGED sessions
       \/ /\ first(users, username) = 0
          /\ sessions' = [sessions EXCEPT ![t] = Pending(username, hash(password))]
          /\ resp' = NoResp
    /\ UNCHANGED <<users, now, sweeper, pinged, logged>>

\* Line 91: db.commit() flushes the INSERT.  The UNIQUE index refuses a
\* username that another session inserted meanwhile: IntegrityError, which
\* the handler does not catch (500).
register_commit(t) ==
    LET s == sessions[t] IN
    /\ s.pc = "commit"
    /\ s.op = "register"
    /\ \/ /\ UniqueViolation(users, s.username)
          /\ resp' = Response("register", s.username, "", 500, "IntegrityError")
          /\ UNCHANGED users
       \/ /\ ~UniqueViolation(users, s.username)
          /\ users' = Append(users, User(s.username, s.hashed_password, now))
          /\ resp' = Response("register", s.username, "", 200, "User created successfully")
    /\ sessions' = [sessions EXCEPT ![t] = Idle]
    /\ UNCHANGED <<now, sweeper, pinged, logged>>

\* ---- POST /login --------------------------------------------------------
\* Lines 96-102.
login(t, username, password) ==
    LET id == first(users, username) IN
    /\ sessions[t].pc = "idle"
    /\ \/ /\ ~(id # 0 /\ verify(password, users[id].hashed_password))
          /\ resp' = Response("login", username, password, 400, "Invalid credentials")
          /\ UNCHANGED sessions
       \/ /\ id # 0
          /\ verify(password, users[id].hashed_password)
          /\ sessions' = [sessions EXCEPT ![t] =
                 Dirty("login", username, password, id, users[id],
                       [is_online |-> TRUE, last_ping |-> now])]
          /\ resp' = NoResp
    /\ UNCHANGED <<users, now, sweeper, pinged, logged>>

\* ---- POST /ping ---------------------------------------------------------
\* Lines 109-114.
ping(t, username) ==
    LET id == first(users, username) IN
    /\ sessions[t].pc = "idle"
    /\ \/ /\ id = 0
          /\ resp' = Response("ping", username, "", 404, "User not found")
          /\ UNCHANGED sessions
       \/ /\ id # 0
          /\ sessions' = [sessions EXCEPT ![t] =
                 Dirty("ping", username, "", id, users[id],
                       [last_ping |-> now, is_online |-> TRUE])]
          /\ resp' = NoResp
    /\ UNCHANGED <<users, now, sweeper, pinged, logged>>

\* ---- POST /status -------------------------------------------------------
\* Lines 131-135.
update_status_offline(t, username, is_busy) ==
    LET id == first(users, username) IN
    /\ sessions[t].pc = "idle"
    /\ \/ /\ id = 0
          /\ resp' = Response("status", username, "", 404, "User not found")
          /\ UNCHANGED sessions
       \/ /\ id # 0
          /\ sessions' = [sessions EXCEPT ![t] =
                 Dirty("status", username, "", id, users[id],
                       [is_busy |-> is_busy, is_online |-> ~is_busy])]
          /\ resp' = NoResp
    /\ UNCHANGED <<users, now, sweeper, pinged, logged>>

update_status(t, username, is_busy) ==
    LET id == first(users, username) IN
    /\ sessions[t].pc = "idle"
    /\ \/ /\ id = 0
          /\ resp' = Response("status", username, "", 404, "User not found")
          /\ UNCHANGED sessions
       \/ /\ id # 0
          /\ sessions' = [sessions EXCEPT ![t] =
                 Dirty("status", username, "", id, users[id], [is_busy |-> is_busy])]
          /\ resp' = NoResp
    /\ UNCHANGED <<users, now, sweeper, pinged, logged>>

\* ---- db.commit() of login, ping and update_status -----------------------
\* Lines 103-105, 115-116, 136-137: the UPDATE of the changed columns, then
\* the handler's return.
commit(t) ==
    LET s == sessions[t] IN
    /\ s.pc = "commit"
    /\ s.op \in {"login", "ping", "status"}
    /\ users' = Update(users, s.id, s.cols, s.vals)
    /\ resp' = Response(s.op, s.username, s.password, 200, "ok")
    /\ sessions' = [sessions EXCEPT ![t] = Idle]
    /\ pinged' = CASE s.op = "ping" -> [pinged EXCEPT ![s.username] = s.vals.last_ping]
                   [] s.op = "login" -> [pinged EXCEPT ![s.username] = -1]
                   [] OTHER -> pinged
    /\ logged' = CASE s.op = "login" -> [logged EXCEPT ![s.username] = s.vals.last_ping]
                   [] s.op = "ping" -> [logged EXCEPT ![s.username] = -1]
                   [] OTHER -> logged
    /\ UNCHANGED <<now, sweeper>>

\* ---- GET /users ---------------------------------------------------------
\* Lines 121-126: the ids of the rows the query selects.
Available_flag_only(table, t) ==
    {i \in DOMAIN table : table[i].is_online = TRUE /\ table[i].is_busy = FALSE}

Available_busy_too(table, t) ==
    {i \in DOMAIN table : table[i].is_online = TRUE /\ table[i].last_ping > t - TTL}

Available(table, t) ==
    {i \in DOMAIN table :
        /\ table[i].is_online = TRUE
        /\ table[i].last_ping > t - TTL
        /\ table[i].is_busy = FALSE}

get_users(t) ==
    /\ sessions[t].pc = "idle"
    /\ resp' = [Response("get_users", "", "", 200, "") EXCEPT
                    !.body = {UserResponse(users[i]) : i \in Available(users, now)}]
    /\ UNCHANGED <<users, now, sessions, sweeper, pinged, logged>>

\* ---- prune_users --------------------------------------------------------
\* A selection on age alone, whatever the row's is_online.
Stale_any(table, t) ==
    {i \in DOMAIN table : table[i].last_ping < t - TTL}

\* Lines 57-62: the ids of the rows the sweep selects.
Stale(table, t) ==
    {i \in DOMAIN table :
        /\ table[i].is_online = TRUE
        /\ table[i].last_ping < t - TTL}

\* Lines 64-66: the assignments to one stale user.
Evict(row) == Changed(row, [is_online |-> FALSE, is_busy |-> FALSE])

\* Lines 56-66, and 68-74 when nothing is stale: no commit, close, sleep.
prune_users ==
    LET stale_users == Stale(users, now) IN
    /\ sweeper.pc = "ready"
    /\ \/ /\ stale_users = {}
          /\ sweeper' = [pc |-> "sleep", upd |-> {}, err |-> FALSE]
       \/ /\ stale_users # {}
          /\ sweeper' = [pc |-> "commit",
                         upd |-> {[id |-> i, cols |-> Evict(users[i])] : i \in stale_users},
                         err |-> FALSE]
    /\ resp' = NoResp
    /\ UNCHANGED <<users, now, sessions, pinged, logged>>

\* Lines 68-74: db.commit() flushes one UPDATE per stale user, then sleep.
Flush(table, upd) ==
    [i \in DOMAIN table |->
        IF \E u \in upd : u.id = i
        THEN LET u == CHOOSE u \in upd : u.id = i
             IN  [c \in DOMAIN table[i] |->
                     IF c \in u.cols THEN FALSE ELSE table[i][c]]
        ELSE table[i]]

prune_commit ==
    /\ sweeper.pc = "commit"
    /\ users' = Flush(users, sweeper.upd)
    /\ sweeper' = [pc |-> "sleep", upd |-> {}, err |-> FALSE]
    /\ resp' = NoResp
    /\ UNCHANGED <<now, sessions, pinged, logged>>

\* An exception that leaves the coroutine ends the task: nothing restarts it.
Uncaught == [pc |-> "stopped", upd |-> {}, err |-> TRUE]

\* Lines 71-74: `except Exception` prints "Pruning error" and the loop
\* goes on to its sleep; the session that failed is dropped.
Caught == [pc |-> "sleep", upd |-> {}, err |-> TRUE]

\* Lines 55-72: the cycle raises, while it opens the session and queries or
\* while db.commit() flushes the UPDATE of one of the stale users.  The
\* flush is one transaction: an UPDATE that fails rolls all of them back.
prune_error ==
    /\ sweeper.pc \in {"ready", "commit"}
    /\ sweeper' = Caught
    /\ resp' = NoResp
    /\ UNCHANGED <<users, now, sessions, pinged, logged>>

Next ==
    \/ \E d \in TickSteps : Tick(d)
    \/ \E t \in Threads, k \in Keys, p \in Secrets : register(t, k, p)
    \/ \E t \in Threads : register_commit(t)
    \/ \E t \in Workers, k \in Keys, p \in Passwords : login(t, k, p)
    \/ \E t \in Workers, k \in Keys : ping(t, k)
    \/ \E t \in Workers, k \in Keys, b \in BOOLEAN : update_status(t, k, b)
    \/ \E t \in Workers : commit(t)
    \/ \E t \in Workers : get_users(t)
    \/ prune_users
    \/ prune_commit
    \/ prune_error

Spec == Init /\ [][Next]_vars

\* The scheduling the code relies on: time passes (asyncio.sleep returns),
\* and a handler that has run its query runs on to its commit and returns.
LiveSpec ==
    /\ Spec
    /\ SF_vars(\E d \in TickSteps : Tick(d))
    /\ \A t \in Threads : WF_vars(register_commit(t))
    /\ \A t \in Workers : WF_vars(commit(t))

\* ==== properties =========================================================
\* The rows of `username`, and the fields the presence rules speak of.
RowsOf(username) == {i \in DOMAIN users : users[i].username = username}

Age(i) == now - users[i].last_ping

Listed == {u.username : u \in resp.body}

\* C1 (P1, no phantom busy-offline): in every reachable state every record
\* that is not online is not busy.
C1_NoBusyOffline ==
    \A i \in DOMAIN users : users[i].is_online = FALSE => users[i].is_busy = FALSE

\* C2 (P2, heartbeat freshness): once /ping for k has returned ok with
\* timestamp t and no later heartbeat for k has completed, every GET /users
\* answered at a time t' with t <= t' <= t + TTL while k is not busy lists k.
C2_PingKeepsListed ==
    resp.op = "get_users" =>
        \A k \in Keys :
            (/\ pinged[k] >= 0
             /\ pinged[k] <= now
             /\ now <= pinged[k] + TTL
             /\ \A i \in RowsOf(k) : users[i].is_busy = FALSE)
            => k \in Listed

\* C3 (P3, eviction correctness): every record that is online and older
\* than the TTL when a sweep cycle selects is offline and not busy in the
\* state in which that cycle completes (its commit returns).
C3_EvictionComplete ==
    [][(sweeper.pc = "commit" /\ sweeper'.pc = "sleep" /\ ~sweeper'.err) =>
          \A u \in sweeper.upd :
              /\ users'[u.id].is_online = FALSE
              /\ users'[u.id].is_busy = FALSE]_vars

\* C4: GET /users never returns a record whose last heartbeat is older than
\* the TTL, also while the record is still flagged online because no sweep
\* has run since it expired.
C4_NoExpiredListed ==
    resp.op = "get_users" =>
        \A i \in DOMAIN users : users[i].username \in Listed => Age(i) <= TTL

\* C4 witness: a listing is answered while a record is online, not busy and
\* past its TTL (the ExpiredOnline window).
C4_Witness ==
    /\ resp.op = "get_users"
    /\ \E i \in DOMAIN users :
          users[i].is_online /\ ~users[i].is_busy /\ Age(i) > TTL

\* C5: GET /users returns exactly the keys whose record is online, not busy
\* and has now - last_ping <= TTL (inclusive).
C5_ListedExactlyFresh ==
    resp.op = "get_users" =>
        Listed = {users[i].username : i \in
                     {j \in DOMAIN users :
                         users[j].is_online /\ ~users[j].is_busy /\ Age(j) <= TTL}}

\* C6 (P5, busy exclusion): a record that is online and busy is never in a
\* GET /users result, whatever its last heartbeat.
C6_BusyNotListed ==
    resp.op = "get_users" =>
        \A i \in DOMAIN users :
            (users[i].is_online /\ users[i].is_busy) => users[i].username \notin Listed

\* C6 witness: a listing is answered while a record is online, busy and
\* within its TTL.
C6_Witness ==
    /\ resp.op = "get_users"
    /\ \E i \in DOMAIN users :
          users[i].is_online /\ users[i].is_busy /\ Age(i) < TTL

\* A /register request for k is taken up in this step: it is refused at
\* its check, or it passes the check and its session now holds the new row.
RegisterCalled(k) ==
    \/ /\ resp'.op = "register"
       /\ resp'.username = k
       /\ sessions' = sessions
    \/ \E t \in Threads :
          /\ sessions[t].pc = "idle"
          /\ sessions'[t].pc = "commit"
          /\ sessions'[t].op = "register"
          /\ sessions'[t].username = k

\* C7 (P4, sequential): a /register for k taken up after an earlier
\* /register for k has completed fails with "Username already registered"
\* (400) and changes no row, the table holding exactly one row for k; and a
\* /register succeeds only when no row for k existed, leaving exactly one.
C7_DuplicateRejected ==
    [][\A k \in Keys :
          /\ (RowsOf(k) # {} /\ RegisterCalled(k)) =>
                /\ resp' = Response("register", k, "", 400, "Username already registered")
                /\ users' = users
                /\ Cardinality(RowsOf(k)) = 1
          /\ (resp'.op = "register" /\ resp'.username = k /\ resp'.status = 200) =>
                /\ RowsOf(k) = {}
                /\ Cardinality({i \in DOMAIN users' : users'[i].username = k}) = 1
      ]_vars

\* C7 witness: a /register for a key that has its one row has just been
\* refused.
C7_Witness ==
    /\ resp.op = "register"
    /\ resp.status = 400
    /\ Cardinality(RowsOf(resp.username)) = 1

\* C8: of two /register requests for one key that both pass the existence
\* check before either inserts, the one that commits second fails with the
\* duplicate-key error (400, "Username already registered") and changes no
\* row, and the table ends with exactly one row for the key.
C8_ConcurrentRegister ==
    [][\A t \in Threads :
          (/\ sessions[t].pc = "commit"
           /\ sessions[t].op = "register"
           /\ sessions'[t].pc = "idle"
           /\ RowsOf(sessions[t].username) # {}) =>
              /\ resp' = Response("register", sessions[t].username, "", 400,
                                  "Username already registered")
              /\ users' = users
              /\ Cardinality(RowsOf(sessions[t].username)) = 1
      ]_vars

\* C9: a /login for an unknown key and a /login with a wrong password for a
\* known key get the same response (400, "Invalid credentials", no body) and
\* change no row; a /login that returns ok, or that changes a row, carries
\* the password the key registered with.
C9_LoginFailure ==
    [][resp'.op = "login" =>
          LET k == resp'.username
              valid == \E i \in RowsOf(k) :
                          users[i].hashed_password = hash(resp'.password)
          IN  /\ ~valid =>
                    /\ resp'.status = 400
                    /\ resp'.detail = "Invalid credentials"
                    /\ resp'.body = {}
                    /\ users' = users
              /\ (resp'.status = 200 \/ users' # users) => valid
              /\ resp'.status = 200 =>
                    \A i \in RowsOf(k) : users'[i].last_ping = now
      ]_vars

\* C9 witness: a /login with a wrong password for a registered key has just
\* been refused.
C9_Witness ==
    /\ resp.op = "login"
    /\ resp.status = 400
    /\ \E i \in RowsOf(resp.username) :
          users[i].hashed_password # hash(resp.password)

\* C10: a /ping or /status for a key that has no row fails with 404 ("User
\* not found"), is not taken up by any session, creates no row and changes
\* no existing row.
C10_NotFound ==
    [][\A k \in Keys :
          RowsOf(k) = {} =>
              /\ \A t \in Threads :
                    ~(sessions'[t].op \in {"ping", "status"} /\ sessions'[t].username = k)
              /\ (resp'.op \in {"ping", "status"} /\ resp'.username = k) =>
                    /\ resp'.status = 404
                    /\ resp'.detail = "User not found"
                    /\ users' = users
      ]_vars

\* C10 witness: a /ping for a key without a row has just been refused while
\* another key has a row.
C10_Witness ==
    /\ resp.op = "ping"
    /\ resp.status = 404
    /\ RowsOf(resp.username) = {}
    /\ users # <<>>

\* C11: for a registered user who has logged in and is within the TTL,
\* membership in GET /users follows the busy flag.  A /login that returns ok
\* for a user who is not busy leaves the user selected by the listing; a
\* /status that returns ok for a user who is online and whose last heartbeat
\* is at most TTL old leaves the user selected exactly when it asked for
\* busy = false (so busy = true then busy = false restores the listing).
C11_ListedFollowsBusy ==
    [][\A t \in Workers :
          (sessions[t].pc = "commit" /\ sessions'[t].pc = "idle") =>
              LET i == sessions[t].id
                  listed == i \in Available(users', now')
              IN  /\ (sessions[t].op = "login" /\ ~users'[i].is_busy) => listed
                  /\ (/\ sessions[t].op = "status"
                      /\ users'[i].is_online
                      /\ now' - users'[i].last_ping <= TTL) =>
                         (listed <=> ~sessions[t].vals.is_busy)
      ]_vars

\* A sweep cycle that selected at the current instant has committed.
Swept == sweeper.pc = "sleep" /\ ~sweeper.err

\* C12: a user whose last heartbeat is a /login at time t is demoted within
\* one sweep period of the TTL expiry: at every instant from
\* t + TTL + SweepInterval on, once the sweep due at that instant has
\* committed, the record is offline, not busy and not selected by GET /users.
C12_DemotedAfterTTL ==
    \A k \in Keys :
        (/\ logged[k] >= 0
         /\ now >= logged[k] + TTL + SweepInterval
         /\ Swept) =>
            \A i \in RowsOf(k) :
                /\ users[i].is_online = FALSE
                /\ users[i].is_busy = FALSE
                /\ i \notin Available(users, now)

\* The sweep's commit: the step in which its UPDATEs reach the table.
SweepCommits == sweeper.pc = "commit" /\ sweeper'.pc = "sleep" /\ ~sweeper'.err

\* C13: the sweep never demotes a fresh record: whenever its commit turns
\* is_online of a record from true to false, the stored record is older
\* than the TTL at that instant, also when a /ping or /login for the record
\* committed after the sweep selected it.
C13_DemotesOnlyStale ==
    [][SweepCommits =>
          \A i \in DOMAIN users :
              (users[i].is_online /\ ~users'[i].is_online) =>
                  now - users[i].last_ping > TTL
      ]_vars

\* C14: the eviction flips both flags together: in the state right after
\* the sweep's commit has turned a record offline the record is not busy,
\* also when a /status (busy = true) for the record committed after the
\* sweep selected it.
C14_EvictionClearsBusy ==
    [][SweepCommits =>
          \A i \in DOMAIN users :
              (users[i].is_online /\ ~users'[i].is_online) =>
                  users'[i].is_busy = FALSE
      ]_vars

\* C15: only the sweep turns is_online from true to false: every step that
\* does so for some record is the sweep's commit; the steps of /register,
\* /login, /ping, /status and GET /users never do.
C15_OnlySweepTurnsOffline ==
    [][(\E i \in DOMAIN users : users[i].is_online /\ ~users'[i].is_online) =>
          SweepCommits
      ]_vars

\* C15 witness: a record that a /login had brought online is offline again,
\* the sweep having committed.
C15_Witness ==
    /\ Swept
    /\ \E k \in Keys : logged[k] >= 0 /\ \E i \in RowsOf(k) : ~users[i].is_online

\* The commit of worker t's /login, /ping or /status session.
Commits(t, ops) ==
    sessions[t].pc = "commit" /\ sessions[t].op \in ops /\ sessions'[t].pc = "idle"

\* Every row but row i is as it was, and no row was added.
OthersUnchanged(i) ==
    /\ DOMAIN users' = DOMAIN users
    /\ \A j \in DOMAIN users : j # i => users'[j] = users[j]

\* C16: a /login or /ping that returns ok leaves the record online with
\* last_ping = now and busy as it was, and every other record unchanged.
C16_MarkOnline ==
    [][\A t \in Workers :
          Commits(t, {"login", "ping"}) =>
              LET i == sessions[t].id
              IN  /\ users'[i].is_online = TRUE
                  /\ users'[i].last_ping = now
                  /\ users'[i].is_busy = users[i].is_busy
                  /\ OthersUnchanged(i)
      ]_vars

\* C17: a /status that returns ok leaves busy as requested, the record's
\* is_online and last_ping as they were, and every other record unchanged.
C17_SetBusy ==
    [][\A t \in Workers :
          Commits(t, {"status"}) =>
              LET i == sessions[t].id
              IN  /\ users'[i].is_busy = sessions[t].vals.is_busy
                  /\ users'[i].is_online = users[i].is_online
                  /\ users'[i].last_ping = users[i].last_ping
                  /\ OthersUnchanged(i)
      ]_vars

\* C18: the sweeper never stops because of an error.  The task is always at
\* one of the positions of its loop, a cycle that fails, at the query or at
\* the commit, goes on to the sleep, and the sleep after a failed cycle is
\* followed by the start of the next cycle, as long as the clock of the
\* model has not reached its bound.
C18_SweeperNeverStops ==
    /\ [](sweeper.pc \in {"ready", "commit", "sleep"})
    /\ [][(/\ sweeper.pc \in {"ready", "commit"}
            /\ sweeper' # sweeper
            /\ sweeper'.err) => sweeper'.pc = "sleep"]_vars
    /\ (sweeper.pc = "sleep" /\ sweeper.err /\ now < MaxTime) ~>
           (sweeper.pc = "ready")

\* C18 witness: a cycle has failed, its sleep is over and the next cycle is
\* about to run.
C18_Witness == sweeper.pc = "ready" /\ sweeper.err

\* C19: when a cycle fails at the eviction of one stale record, every other
\* record the cycle selected is demoted by the end of that cycle: at most
\* one of the selected records is still online and past its TTL.
C19_PerRecordIndependence ==
    [][(sweeper.pc = "commit" /\ sweeper'.pc = "sleep" /\ sweeper'.err) =>
          Cardinality({u \in sweeper.upd :
                          /\ users'[u.id].is_online
                          /\ now' - users'[u.id].last_ping > TTL}) <= 1]_vars

\* A step of the prune_users task: its query, its commit, or a failure.
SweepStep == sweeper.pc \in {"ready", "commit"} /\ sweeper' # sweeper

\* C20: a sweep cycle changes nothing but is_online and is_busy of rows it
\* selected: no row is added, no row's username, hashed_password or
\* last_ping changes, a row that is offline is left exactly as it is (a busy
\* flag set on an offline row stays), and only selected rows change.
C20_SweepFrame ==
    [][SweepStep =>
          /\ DOMAIN users' = DOMAIN users
          /\ \A i \in DOMAIN users :
                /\ users'[i].username = users[i].username
                /\ users'[i].hashed_password = users[i].hashed_password
                /\ users'[i].last_ping = users[i].last_ping
                /\ ~users[i].is_online => users'[i] = users[i]
                /\ users'[i] # users[i] => \E u \in sweeper.upd : u.id = i
      ]_vars

\* C20 witness: a cycle has evicted one user while another row, which never
\* logged in or pinged, is offline and busy and past the TTL.
C20_Witness ==
    /\ Swept
    /\ \E i, j \in DOMAIN users :
          /\ logged[users[i].username] = -1 /\ pinged[users[i].username] = -1
          /\ ~users[i].is_online /\ users[i].is_busy /\ Age(i) > TTL
          /\ logged[users[j].username] >= 0 /\ ~users[j].is_online

====
